---- MODULE Spec2Model ----
(***************************************************************************)
(* Model of the DHCPv4 responder in src/src/server/server.go.              *)
(*                                                                         *)
(* The responder reads frames one at a time from a capture source, decodes *)
(* each with parsePacket, decides a response in respond (processRequest,   *)
(* processDiscover, prepareOffer, prepareAck, prepareNak) and transmits it *)
(* with Sendto.  Addresses are byte sequences, as in Go: a MAC is 6 bytes, *)
(* a net.IP is 4 bytes, 16 bytes (IPv4-in-IPv6 form) or nil (length 0).    *)
(*                                                                         *)
(* Not modelled (no operation reads them after parsePacket stores them):   *)
(* UDP ports, OpCode, HostName, RequestList.  A frame is assumed to carry  *)
(* a UDP payload that holds a DHCP message of full length.                 *)
(***************************************************************************)
EXTENDS Integers, Sequences, FiniteSets, TLC

VARIABLES pc, addr, config, frame, p, lease, response, sent, events,
          nRead, nDecoded, resolveCalls, sentOrder, resolved

vars == <<pc, addr, config, frame, p, lease, response, sent, events,
          nRead, nDecoded, resolveCalls, sentOrder, resolved>>

(***************************************************************************)
(* Bounds                                                                  *)
(***************************************************************************)
\* number of frames the capture source delivers in one run
MaxFrames == 2
\* largest number of stacked 802.1Q tags in an inbound frame
MaxTags == 3

(***************************************************************************)
(* DHCP message types (github.com/krolaw/dhcp4)                            *)
(***************************************************************************)
Discover == 1
Offer == 2
Request == 3
ACK == 5
NAK == 6
Release == 7

(***************************************************************************)
(* Addresses                                                               *)
(***************************************************************************)
ClientMac == <<170, 187, 204, 221, 238, 17>>
ClientMac2 == <<6, 5, 4, 3, 2, 1>>
Broadcast == <<255, 255, 255, 255, 255, 255>>
ServerMac == <<2, 0, 0, 0, 0, 1>>

ZeroAddr == <<0, 0, 0, 0>>
Addr1 == <<10, 0, 0, 50>>
Addr2 == <<10, 0, 0, 51>>
Addr3 == <<10, 0, 0, 7>>
BcastAddr == <<255, 255, 255, 255>>
MyAddress == <<10, 0, 0, 1>>

\* a nil net.IP (a nil slice has length 0)
NilIP == <<>>

v4InV6Prefix == <<0, 0, 0, 0, 0, 0, 0, 0, 0, 0, 255, 255>>

\* net.IPv4(a, b, c, d): the 16-byte form of an IPv4 address
IPv4(a, b, c, d) == v4InV6Prefix \o <<a, b, c, d>>

\* net.IP.Equal: an IPv4 address and its 16-byte form are equal
IPEqual(ip, x) ==
  IF Len(ip) = Len(x) THEN ip = x
  ELSE IF Len(ip) = 4 /\ Len(x) = 16
       THEN SubSeq(x, 1, 12) = v4InV6Prefix /\ ip = SubSeq(x, 13, 16)
  ELSE IF Len(ip) = 16 /\ Len(x) = 4
       THEN SubSeq(ip, 1, 12) = v4InV6Prefix /\ SubSeq(ip, 13, 16) = x
  ELSE FALSE

(***************************************************************************)
(* Inbound frames                                                          *)
(***************************************************************************)
\* the two bytes of the i-th 802.1Q tag control field of a stack: priority 0,
\* or priority i (the top three bits of the first byte), VLAN id 100 + i
PlainTag(i) == <<0, 100 + i>>
PrioTag(i) == <<(32 * i) % 256, 100 + i>>

TagStacks == {[i \in 1..n |-> PlainTag(i)] : n \in 0..MaxTags}
             \cup {[i \in 1..n |-> PrioTag(i)] : n \in 1..MaxTags}

\* an option of the DHCP message: the result of a Go map lookup v, ok := m[k]
Absent == [ok |-> FALSE, val |-> <<>>]
Opt(v) == [ok |-> TRUE, val |-> v]

Opt53Values == {Absent, Opt(<<>>), Opt(<<Discover>>), Opt(<<Request>>),
                Opt(<<Release>>), Opt(<<Discover, Request>>)}

Opt50Values == {Absent, Opt(Addr1), Opt(Addr2), Opt(<<10, 0, 0>>)}

IPv4Frames ==
  [srcMac : {ClientMac, ClientMac2}, dstMac : {Broadcast, ServerMac}, tags : TagStacks,
   netLayer : {"IPv4"}, srcIP : {ZeroAddr, Addr1, Addr3}, dstIP : {BcastAddr},
   ciaddr : {ZeroAddr, Addr1, Addr2}, opt53 : Opt53Values, opt50 : Opt50Values]

\* UDP over IPv6 passes the capture filter "udp and dst port 67" as well
IPv6Frames ==
  [srcMac : {ClientMac}, dstMac : {Broadcast}, tags : TagStacks,
   netLayer : {"IPv6"}, srcIP : {NilIP}, dstIP : {NilIP},
   ciaddr : {ZeroAddr}, opt53 : {Opt(<<Discover>>), Opt(<<>>)}, opt50 : {Absent}]

Frames == IPv4Frames \cup IPv6Frames

NoFrame == [none |-> "frame"]
NoPacket == [none |-> "packet"]
NoLease == [none |-> "lease"]
NoResponse == [none |-> "response"]
NotSent == [none |-> "sent"]

\* the leases a resolver may return (config.Lease: an IP in either form)
Leases == {[Ip |-> Addr1], [Ip |-> IPv4(10, 0, 0, 50)],
           [Ip |-> Addr2], [Ip |-> IPv4(10, 0, 0, 51)]}

(***************************************************************************)
(* Server configuration and the link-layer address template                *)
(***************************************************************************)
IfIndex == 2

\* New: the configuration, MyMac filled in from the interface
NewConfig == [MyAddress |-> MyAddress, MyMac |-> ServerMac]

\* the zero value of syscall.SockaddrLinklayer
ZeroSockaddr == [Protocol |-> 0, Halen |-> 0, Pkttype |-> 0, Ifindex |-> 0,
                 Addr |-> <<0, 0, 0, 0, 0, 0, 0, 0>>]

\* run: s.addr as set before the loop
RunSockaddr == [Protocol |-> 4, Halen |-> 6, Pkttype |-> 0, Ifindex |-> IfIndex,
                Addr |-> <<0, 0, 0, 0, 0, 0, 0, 0>>]

(***************************************************************************)
(* parsePacket                                                             *)
(***************************************************************************)
EthernetTypeDot1Q == 33024
EthernetTypeIPv4 == 2048
EthernetTypeIPv6 == 34525

\* ethernet.EthernetType: the type field that follows the MAC addresses
EthernetType(f) ==
  IF Len(f.tags) > 0 THEN EthernetTypeDot1Q
  ELSE IF f.netLayer = "IPv4" THEN EthernetTypeIPv4 ELSE EthernetTypeIPv6

\* uint16(c[0])<<8 + uint16(c[1]) of a Dot1Q layer's contents
VlanValue(c) == (((c[1] * 256) % 65536) + c[2]) % 65536

\* mutant: the entries are collected innermost tag first
VlanOfInnerFirst(f) ==
  [i \in 1..Len(f.tags) |-> VlanValue(f.tags[Len(f.tags) + 1 - i])]

\* one entry per Dot1Q layer of the packet, in layer order
VlanOf(f) == [i \in 1..Len(f.tags) |-> VlanValue(f.tags[i])]

\* mutant: an option 50 of fewer than 4 bytes is padded with zero bytes
RequestedIpOfPadded(o) ==
  IF o.ok /\ Len(o.val) > 0 /\ Len(o.val) <= 4
  THEN IPv4(o.val[1],
            IF Len(o.val) >= 2 THEN o.val[2] ELSE 0,
            IF Len(o.val) >= 3 THEN o.val[3] ELSE 0,
            IF Len(o.val) >= 4 THEN o.val[4] ELSE 0)
  ELSE NilIP

\* the requested IP: set only from an option 50 of exactly 4 bytes
RequestedIpOf(o) ==
  IF o.ok /\ Len(o.val) = 4
  THEN IPv4(o.val[1], o.val[2], o.val[3], o.val[4])
  ELSE NilIP

\* mutant: a message without option 53 is taken for a Discover
MsgTypeOfDefaultDiscover(o) == IF o.ok THEN o.val[1] ELSE Discover

\* the message type: the zero value unless option 53 is present
MsgTypeOf(o) == IF o.ok THEN o.val[1] ELSE 0


\* mutant: the message-type check rejects only an empty option value
parsePacketNonEmpty(f) ==
  IF f.netLayer # "IPv4"
  THEN [outcome |-> "panic", dp |-> NoPacket]
  ELSE IF f.opt53.ok /\ Len(f.opt53.val) < 1
  THEN [outcome |-> "error", dp |-> NoPacket]
  ELSE [outcome |-> "ok",
        dp |-> [SrcMac |-> f.srcMac, DstMac |-> f.dstMac,
                EtherType |-> EthernetType(f), VLan |-> VlanOf(f),
                SrcIP |-> f.srcIP, DstIP |-> f.dstIP,
                MsgType |-> MsgTypeOf(f.opt53),
                RequestedIp |-> RequestedIpOf(f.opt50),
                packet |-> [ciaddr |-> f.ciaddr]]]

\* the outcome of parsePacket: "panic" (a failed type assertion is a run-time
\* panic), "error" (the error return) or "ok" with the DataPacket
parsePacket(f) ==
  IF f.netLayer # "IPv4"
  THEN [outcome |-> "panic", dp |-> NoPacket]
  ELSE IF f.opt53.ok /\ Len(f.opt53.val) # 1
  THEN [outcome |-> "error", dp |-> NoPacket]
  ELSE [outcome |-> "ok",
        dp |-> [SrcMac |-> f.srcMac, DstMac |-> f.dstMac,
                EtherType |-> EthernetType(f), VLan |-> VlanOf(f),
                SrcIP |-> f.srcIP, DstIP |-> f.dstIP,
                MsgType |-> MsgTypeOf(f.opt53),
                RequestedIp |-> RequestedIpOf(f.opt50),
                packet |-> [ciaddr |-> f.ciaddr]]]

\* dhcp4.Packet.CIAddr: the four bytes p[12:16] of the message, a slice that
\* is never nil
CIAddr(packet) == packet.ciaddr

(***************************************************************************)
(* The decision: prepareOffer, prepareAck, prepareNak, processRequest,     *)
(* processDiscover                                                         *)
(***************************************************************************)
\* the DHCP message bodies built by DataPacket.OfferResponse, AckResponse and
\* NakResponse: opaque bytes that this code only transports
OfferResponse(dp, l) == [body |-> Offer, lease |-> l]
AckResponse(dp, l) == [body |-> ACK, lease |-> l]
NakResponse(dp, l) == [body |-> NAK, lease |-> l]


\* mutant: the Offer is addressed like an Ack, to the client-IP field
prepareOfferToCIAddr(dp, l, cfg) ==
  [DhcpType |-> Offer, EtherType |-> dp.EtherType, VLan |-> dp.VLan,
   Payload |-> OfferResponse(dp, l), SrcIp |-> cfg.MyAddress,
   DstIp |-> CIAddr(dp.packet), OfferedIp |-> l.Ip, DstMac |-> dp.SrcMac,
   SrcMac |-> cfg.MyMac]

prepareOffer(dp, l, cfg) ==
  [DhcpType |-> Offer, EtherType |-> dp.EtherType, VLan |-> dp.VLan,
   Payload |-> OfferResponse(dp, l), SrcIp |-> cfg.MyAddress,
   DstIp |-> dp.SrcIP, OfferedIp |-> l.Ip, DstMac |-> dp.SrcMac,
   SrcMac |-> cfg.MyMac]


\* mutant: the Ack is addressed like an Offer, to the request's source IP
prepareAckToSrcIP(dp, l, cfg) ==
  [DhcpType |-> ACK, EtherType |-> dp.EtherType, VLan |-> dp.VLan,
   Payload |-> AckResponse(dp, l), SrcIp |-> cfg.MyAddress,
   DstIp |-> dp.SrcIP, OfferedIp |-> l.Ip, DstMac |-> dp.SrcMac,
   SrcMac |-> cfg.MyMac]

\* mutant: the Ack reports the address the client asked for
prepareAckOffersRequested(dp, l, cfg) ==
  [DhcpType |-> ACK, EtherType |-> dp.EtherType, VLan |-> dp.VLan,
   Payload |-> AckResponse(dp, l), SrcIp |-> cfg.MyAddress,
   DstIp |-> CIAddr(dp.packet), OfferedIp |-> dp.RequestedIp,
   DstMac |-> dp.SrcMac, SrcMac |-> cfg.MyMac]

prepareAck(dp, l, cfg) ==
  [DhcpType |-> ACK, EtherType |-> dp.EtherType, VLan |-> dp.VLan,
   Payload |-> AckResponse(dp, l), SrcIp |-> cfg.MyAddress,
   DstIp |-> CIAddr(dp.packet), OfferedIp |-> l.Ip, DstMac |-> dp.SrcMac,
   SrcMac |-> cfg.MyMac]


\* mutant: the Nak is addressed like an Ack, to the client-IP field
prepareNakToCIAddr(dp, l, cfg) ==
  [DhcpType |-> NAK, EtherType |-> dp.EtherType, VLan |-> dp.VLan,
   Payload |-> NakResponse(dp, l), SrcIp |-> cfg.MyAddress,
   DstIp |-> CIAddr(dp.packet), OfferedIp |-> l.Ip, DstMac |-> dp.SrcMac,
   SrcMac |-> cfg.MyMac]

\* mutant: the Nak keeps only the outermost VLAN tag of the request
prepareNakOuterVlan(dp, l, cfg) ==
  [DhcpType |-> NAK, EtherType |-> dp.EtherType,
   VLan |-> SubSeq(dp.VLan, 1, IF Len(dp.VLan) > 1 THEN 1 ELSE Len(dp.VLan)),
   Payload |-> NakResponse(dp, l), SrcIp |-> cfg.MyAddress,
   DstIp |-> dp.SrcIP, OfferedIp |-> l.Ip, DstMac |-> dp.SrcMac,
   SrcMac |-> cfg.MyMac]

prepareNak(dp, l, cfg) ==
  [DhcpType |-> NAK, EtherType |-> dp.EtherType, VLan |-> dp.VLan,
   Payload |-> NakResponse(dp, l), SrcIp |-> cfg.MyAddress,
   DstIp |-> dp.SrcIP, OfferedIp |-> l.Ip, DstMac |-> dp.SrcMac,
   SrcMac |-> cfg.MyMac]

\* mutant: the lease is compared with the requested-IP option only
processRequestOptionOnly(dp, l, cfg) ==
  IF l # NoLease
  THEN IF CIAddr(dp.packet) = NilIP
       THEN [response |-> prepareOffer(dp, l, cfg), events |-> {}]
       ELSE IF IPEqual(l.Ip, dp.RequestedIp)
       THEN [response |-> prepareAck(dp, l, cfg), events |-> {}]
       ELSE [response |-> prepareNak(dp, l, cfg), events |-> {"nak_mismatch"}]
  ELSE [response |-> NoResponse, events |-> {}]

\* mutant: a Request of a client without a lease is refused with a Nak
processRequestNakUnknown(dp, l, cfg) ==
  IF l # NoLease
  THEN IF CIAddr(dp.packet) = NilIP
       THEN [response |-> prepareOffer(dp, l, cfg), events |-> {}]
       ELSE IF IPEqual(l.Ip, CIAddr(dp.packet))
       THEN [response |-> prepareAck(dp, l, cfg), events |-> {}]
       ELSE IF IPEqual(l.Ip, dp.RequestedIp)
       THEN [response |-> prepareAck(dp, l, cfg), events |-> {}]
       ELSE [response |-> prepareNak(dp, l, cfg), events |-> {"nak_mismatch"}]
  ELSE [response |-> prepareNak(dp, [Ip |-> NilIP], cfg), events |-> {}]

\* processRequest, given the resolver's answer l: the response and the lines
\* it logs
processRequest(dp, l, cfg) ==
  IF l # NoLease
  THEN IF CIAddr(dp.packet) = NilIP
       THEN [response |-> prepareOffer(dp, l, cfg), events |-> {}]
       ELSE IF IPEqual(l.Ip, CIAddr(dp.packet))
       THEN [response |-> prepareAck(dp, l, cfg), events |-> {}]
       ELSE IF IPEqual(l.Ip, dp.RequestedIp)
       THEN [response |-> prepareAck(dp, l, cfg), events |-> {}]
       ELSE [response |-> prepareNak(dp, l, cfg), events |-> {"nak_mismatch"}]
  ELSE [response |-> NoResponse, events |-> {}]

\* processDiscover, given the resolver's answer l
processDiscover(dp, l, cfg) ==
  IF l # NoLease
  THEN [response |-> prepareOffer(dp, l, cfg), events |-> {}]
  ELSE [response |-> NoResponse, events |-> {}]

\* mutant: the resolver is asked for every message type that is set
CallsResolverIfSet(dp) == dp.MsgType # 0

\* respond calls the resolver for these message types only
CallsResolver(dp) == dp.MsgType = Request \/ dp.MsgType = Discover

\* mutant: processRequest resolves a second time before it answers
ResolveArgsTwice(dp) ==
  IF dp.MsgType = Request THEN <<dp, dp>>
  ELSE IF dp.MsgType = Discover THEN <<dp>> ELSE <<>>

\* the arguments of the calls of Resolver.Resolve that respond makes for dp:
\* one call, with dp itself, in processRequest and in processDiscover
ResolveArgs(dp) == IF CallsResolver(dp) THEN <<dp>> ELSE <<>>

\* the switch of respond
Decide(dp, l, cfg) ==
  IF dp.MsgType = Request THEN processRequest(dp, l, cfg)
  ELSE IF dp.MsgType = Discover THEN processDiscover(dp, l, cfg)
  ELSE [response |-> NoResponse, events |-> {"not_implemented"}]

(***************************************************************************)
(* Transmission                                                            *)
(***************************************************************************)
\* p.DstMac[0:8]: DstMac is the slice data[0:6] of the frame, so its first
\* eight bytes are the destination MAC and the first two bytes of the source
\* MAC, which follows it in the frame
DstMacSlice8(dp) == dp.DstMac \o SubSeq(dp.SrcMac, 1, 2)

\* addr := s.addr; copy(addr.Addr[:], p.DstMac[0:8])
SendAddr(a, dp) == [a EXCEPT !.Addr = DstMacSlice8(dp)]

\* RawPacket.Marshal: the Ethernet header, one 802.1Q tag per VLan entry,
\* the IPv4 and UDP headers and the payload
Marshal(r) ==
  [ethDst |-> r.DstMac, ethSrc |-> r.SrcMac, tags |-> r.VLan,
   ipSrc |-> r.SrcIp, ipDst |-> r.DstIp, payload |-> r.Payload]

(***************************************************************************)
(* The state machine                                                       *)
(***************************************************************************)
Init ==
  /\ pc = "new"
  /\ addr = ZeroSockaddr
  /\ config = NewConfig
  /\ frame = NoFrame
  /\ p = NoPacket
  /\ lease = NoLease
  /\ response = NoResponse
  /\ sent = NotSent
  /\ events = {}
  /\ nRead = 0
  /\ nDecoded = 0
  /\ resolveCalls = 0
  /\ sentOrder = <<>>
  /\ resolved = <<>>

\* Run / run up to the loop: the address template is set
Run ==
  /\ pc = "new"
  /\ addr' = RunSockaddr
  /\ pc' = "recv"
  /\ UNCHANGED <<resolved, config, frame, p, lease, response, sent, events,
                 nRead, nDecoded, resolveCalls, sentOrder>>

\* mutant: the next frame is read while the response is still to be sent
ReceivePipelined ==
  /\ pc \in {"recv", "send"}
  /\ nRead < MaxFrames
  /\ \E f \in Frames : frame' = f
  /\ nRead' = nRead + 1
  /\ pc' = "parse"
  /\ UNCHANGED <<resolved, addr, config, p, lease, response, sent, events,
                 nDecoded, resolveCalls, sentOrder>>

\* the loop reads the next frame from the packet source
Receive ==
  /\ pc = "recv"
  /\ nRead < MaxFrames
  /\ \E f \in Frames : frame' = f
  /\ nRead' = nRead + 1
  /\ pc' = "parse"
  /\ UNCHANGED <<resolved, addr, config, p, lease, response, sent, events,
                 nDecoded, resolveCalls, sentOrder>>

\* the loop body has ended (continue, or the return of respond): the locals
\* of the iteration go out of scope and the loop waits for the next frame
EndIteration ==
  /\ pc = "done"
  /\ frame' = NoFrame
  /\ p' = NoPacket
  /\ lease' = NoLease
  /\ response' = NoResponse
  /\ sent' = NotSent
  /\ events' = {}
  /\ resolved' = <<>>
  /\ pc' = "recv"
  /\ UNCHANGED <<addr, config, nRead, nDecoded, resolveCalls, sentOrder>>

\* parsePacket panics: the process ends
ParsePanic ==
  /\ pc = "parse"
  /\ parsePacket(frame).outcome = "panic"
  /\ pc' = "crashed"
  /\ UNCHANGED <<resolved, addr, config, frame, p, lease, response, sent, events,
                 nRead, nDecoded, resolveCalls, sentOrder>>

\* parsePacket returns an error: it is printed and the loop continues
ParseError ==
  /\ pc = "parse"
  /\ parsePacket(frame).outcome = "error"
  /\ events' = events \cup {"parse_error"}
  /\ pc' = "done"
  /\ UNCHANGED <<resolved, addr, config, frame, p, lease, response, sent,
                 nRead, nDecoded, resolveCalls, sentOrder>>

\* parsePacket returns a DataPacket: it is logged and handed to respond
ParseOk ==
  /\ pc = "parse"
  /\ parsePacket(frame).outcome = "ok"
  /\ p' = parsePacket(frame).dp
  /\ nDecoded' = nDecoded + 1
  /\ events' = events \cup {"received"}
  /\ pc' = "respond"
  /\ UNCHANGED <<resolved, addr, config, frame, lease, response, sent,
                 nRead, resolveCalls, sentOrder>>

\* respond up to the Sendto call: the resolver's answer, the decision, the log
Respond ==
  /\ pc = "respond"
  /\ \E l \in (IF CallsResolver(p) THEN Leases \cup {NoLease} ELSE {NoLease}) :
       /\ lease' = l
       /\ response' = Decide(p, l, config).response
       /\ events' = events \cup Decide(p, l, config).events
                      \cup (IF CallsResolver(p) THEN {"resolve"} ELSE {})
                      \cup (IF Decide(p, l, config).response # NoResponse
                            THEN {"response"} ELSE {"not_responding"})
       /\ pc' = IF Decide(p, l, config).response # NoResponse
                THEN "send" ELSE "done"
  /\ resolved' = ResolveArgs(p)
  /\ resolveCalls' = resolveCalls + Len(ResolveArgs(p))
  /\ UNCHANGED <<addr, config, frame, p, sent, nRead, nDecoded, sentOrder>>

\* Sendto succeeds: the frame is on the wire
SendOk ==
  /\ pc = "send"
  /\ sent' = [addr |-> SendAddr(addr, p), data |-> Marshal(response)]
  /\ sentOrder' = Append(sentOrder, nRead)
  /\ pc' = "done"
  /\ UNCHANGED <<resolved, addr, config, frame, p, lease, response, events,
                 nRead, nDecoded, resolveCalls>>

\* mutant: a failed Sendto is logged and the loop continues
SendFailContinue ==
  /\ pc = "send"
  /\ events' = events \cup {"sendto_failed"}
  /\ pc' = "done"
  /\ UNCHANGED <<resolved, addr, config, frame, p, lease, response, sent,
                 nRead, nDecoded, resolveCalls, sentOrder>>

\* Sendto fails: log.Fatalf ends the process
SendFail ==
  /\ pc = "send"
  /\ events' = events \cup {"sendto_failed"}
  /\ pc' = "exited"
  /\ UNCHANGED <<resolved, addr, config, frame, p, lease, response, sent,
                 nRead, nDecoded, resolveCalls, sentOrder>>

Next ==
  \/ Run
  \/ Receive
  \/ EndIteration
  \/ ParsePanic
  \/ ParseError
  \/ ParseOk
  \/ Respond
  \/ SendOk
  \/ SendFail

Spec == Init /\ [][Next]_vars

(***************************************************************************)
(* Properties                                                              *)
(***************************************************************************)
\* respond has decided for the current frame
Responded == p # NoPacket /\ pc \in {"send", "done", "exited"}

\* parsePacket has returned or panicked for the current frame
Parsed == frame # NoFrame /\ pc # "parse"

IsRequestWithLease ==
  Responded /\ p.MsgType = Request /\ lease # NoLease

\* C1: a Request whose client-IP field is 0.0.0.0 and for which the resolver
\* returns a lease L is answered with an Offer for L, whatever the
\* requested-IP option holds.  (The code answers with an Ack or a Nak.)
C1_ZeroClientIPOffers ==
  (IsRequestWithLease /\ frame.ciaddr = ZeroAddr)
    => (response # NoResponse /\ response.DhcpType = Offer
        /\ response.OfferedIp = lease.Ip)

\* C2 as claimed: a Request whose non-zero client-IP field X differs from the
\* lease IP and whose requested-IP option equals the lease IP is answered
\* with an Ack whose destination IP is the request's source IP.
C2_AckToSourceIP ==
  (IsRequestWithLease /\ frame.ciaddr # ZeroAddr
   /\ ~IPEqual(lease.Ip, frame.ciaddr) /\ IPEqual(lease.Ip, p.RequestedIp))
    => (response # NoResponse /\ response.DhcpType = ACK
        /\ response.OfferedIp = lease.Ip
        /\ response.DstIp = frame.srcIP)

\* C2 as amended: a Request whose non-zero client-IP field X differs from the
\* lease IP and whose requested-IP option equals the lease IP is answered
\* with an Ack for that lease whose destination IP is the client-IP field X.
C2_AckToClientIP ==
  (IsRequestWithLease /\ frame.ciaddr # ZeroAddr
   /\ ~IPEqual(lease.Ip, frame.ciaddr) /\ IPEqual(lease.Ip, p.RequestedIp))
    => (response # NoResponse /\ response.DhcpType = ACK
        /\ response.OfferedIp = lease.Ip
        /\ response.DstIp = frame.ciaddr)

\* the case of C2 with a source IP other than the client-IP field
C2_Witness ==
  /\ IsRequestWithLease /\ frame.ciaddr # ZeroAddr
  /\ ~IPEqual(lease.Ip, frame.ciaddr) /\ IPEqual(lease.Ip, p.RequestedIp)
  /\ frame.srcIP # frame.ciaddr
  /\ response # NoResponse /\ response.DhcpType = ACK

\* C3: a Request whose non-zero client-IP field equals the lease IP is
\* answered with an Ack whose offered IP is the lease IP and whose destination
\* IP is the client-IP field, whatever the requested-IP option holds.
C3_ClientIPMatchAcks ==
  (IsRequestWithLease /\ frame.ciaddr # ZeroAddr
   /\ IPEqual(lease.Ip, frame.ciaddr))
    => (response # NoResponse /\ response.DhcpType = ACK
        /\ response.OfferedIp = lease.Ip
        /\ response.DstIp = frame.ciaddr)

\* the case of C3 with no requested-IP option and a lease in 16-byte form
C3_Witness ==
  /\ IsRequestWithLease /\ frame.ciaddr # ZeroAddr
  /\ IPEqual(lease.Ip, frame.ciaddr) /\ Len(lease.Ip) = 16
  /\ ~frame.opt50.ok
  /\ response # NoResponse /\ response.DhcpType = ACK

\* C4: a Request with a lease L whose non-zero client-IP field differs from
\* L.IP and whose requested-IP option is absent or differs from L.IP is
\* answered with a Nak to the request's source IP and the mismatch is logged;
\* the mismatch is logged for no frame that is answered otherwise.
C4_MismatchNaks ==
  /\ (IsRequestWithLease /\ frame.ciaddr # ZeroAddr
      /\ ~IPEqual(lease.Ip, frame.ciaddr)
      /\ (p.RequestedIp = NilIP \/ ~IPEqual(lease.Ip, p.RequestedIp)))
       => (response # NoResponse /\ response.DhcpType = NAK
           /\ response.OfferedIp = lease.Ip
           /\ response.DstIp = frame.srcIP
           /\ "nak_mismatch" \in events)
  /\ "nak_mismatch" \in events
       => (response # NoResponse /\ response.DhcpType = NAK)

\* the case of C4 with an option 50 that holds another address
C4_Witness ==
  /\ IsRequestWithLease /\ frame.ciaddr # ZeroAddr
  /\ ~IPEqual(lease.Ip, frame.ciaddr)
  /\ p.RequestedIp # NilIP /\ ~IPEqual(lease.Ip, p.RequestedIp)
  /\ frame.srcIP # frame.ciaddr
  /\ response # NoResponse /\ response.DhcpType = NAK
  /\ "nak_mismatch" \in events

\* C5: a Discover with a lease L is answered with an Offer: offered IP L.IP,
\* destination IP the request's source IP, destination MAC the request's
\* source MAC, whatever the client-IP field and the requested-IP option hold.
C5_DiscoverOffers ==
  (Responded /\ p.MsgType = Discover /\ lease # NoLease)
    => (response # NoResponse /\ response.DhcpType = Offer
        /\ response.OfferedIp = lease.Ip
        /\ response.DstIp = frame.srcIP
        /\ response.DstMac = frame.srcMac)

\* the case of C5 with a client-IP field and a requested-IP option set
C5_Witness ==
  /\ Responded /\ p.MsgType = Discover /\ lease # NoLease
  /\ frame.ciaddr # ZeroAddr /\ frame.ciaddr # frame.srcIP
  /\ p.RequestedIp # NilIP
  /\ response # NoResponse /\ response.DhcpType = Offer

\* C6: when the resolver returns no lease for a Discover or a Request, there
\* is no decision, nothing is transmitted, and the loop goes on to the next
\* frame (the process neither panics nor exits).
C6_NoLeaseNoResponse ==
  (Responded /\ "resolve" \in events /\ lease = NoLease)
    => (response = NoResponse /\ sent = NotSent /\ pc = "done"
        /\ "not_responding" \in events)

\* the case of C6 for a Request, in a run's second frame
C6_Witness ==
  /\ Responded /\ "resolve" \in events /\ lease = NoLease
  /\ p.MsgType = Request /\ nRead = 2
  /\ pc = "done"

\* C7: a transmitted response carries the VLAN sequence of its request (same
\* length, values and order) and its Ethernet destination is the request's
\* source MAC, for Offer, Ack and Nak and after any earlier frames.
C7_VlanAndMacEchoed ==
  sent # NotSent
    => (/\ response.VLan = p.VLan
        /\ response.DstMac = frame.srcMac
        /\ sent.data.tags = p.VLan
        /\ Len(sent.data.tags) = Len(frame.tags)
        /\ sent.data.ethDst = frame.srcMac)

\* the case of C7 for a Nak with two stacked tags, in a run's second frame
C7_Witness ==
  /\ sent # NotSent /\ response.DhcpType = NAK
  /\ Len(frame.tags) = 2 /\ sent.data.tags[1] # sent.data.tags[2]
  /\ nRead = 2

\* C8: the link-layer address handed to Sendto is the decision's destination
\* MAC, the request's source MAC.  (The code hands over the request's
\* destination MAC.)
C8_SendtoAddrIsSourceMac ==
  sent # NotSent
    => (/\ SubSeq(sent.addr.Addr, 1, 6) = response.DstMac
        /\ SubSeq(sent.addr.Addr, 1, 6) = frame.srcMac)

\* C9: a frame whose network layer is not IPv4 yields a decode error and is
\* dropped without a resolver call or a transmission, the loop continues, and
\* no decode failure ends the process.  (The code panics.)
C9_NonIPv4Dropped ==
  /\ (Parsed /\ frame.netLayer # "IPv4")
       => (pc = "done" /\ "parse_error" \in events /\ p = NoPacket
           /\ "resolve" \notin events /\ sent = NotSent)
  /\ pc # "crashed"

\* C10: for an IPv4 frame with a message-type option, a value of length other
\* than 1 yields a decode error (no resolver call, nothing transmitted, the
\* loop continues), and a value of length 1 sets the request's message type
\* to that byte.
C10_MessageTypeLength ==
  (Parsed /\ frame.netLayer = "IPv4" /\ frame.opt53.ok)
    => IF Len(frame.opt53.val) # 1
       THEN /\ p = NoPacket /\ "parse_error" \in events
            /\ "resolve" \notin events /\ response = NoResponse
            /\ sent = NotSent /\ pc = "done"
       ELSE p # NoPacket /\ p.MsgType = frame.opt53.val[1]

\* the case of C10 with a two-byte option value
C10_Witness ==
  /\ Parsed /\ frame.netLayer = "IPv4" /\ frame.opt53.ok
  /\ Len(frame.opt53.val) = 2
  /\ "parse_error" \in events

\* the 12-bit VLAN id of an 802.1Q tag control field (c[0], c[1])
VlanIdOfTag(c) == (c[1] % 16) * 256 + c[2]

\* C11: a frame whose message type is neither Discover nor Request gets no
\* decision and no transmission, the resolver is not called for it, and a
\* 'not implemented' event is logged.
C11_OtherTypeIgnored ==
  (Responded /\ p.MsgType # Discover /\ p.MsgType # Request)
    => (/\ response = NoResponse /\ sent = NotSent /\ pc = "done"
        /\ resolved = <<>> /\ "resolve" \notin events /\ lease = NoLease
        /\ "not_implemented" \in events)

\* the case of C11 for a Release
C11_Witness ==
  /\ Responded /\ p.MsgType = Release
  /\ "not_implemented" \in events /\ pc = "done"

\* C12: for every decoded Discover or Request, Resolve is called exactly once,
\* with that frame's request, whatever the decision (Offer, Ack, Nak, none);
\* the number of Resolve calls never exceeds the number of decoded frames.
C12_ResolveOncePerFrame ==
  /\ (Responded /\ (p.MsgType = Discover \/ p.MsgType = Request))
       => resolved = <<p>>
  /\ Len(resolved) <= 1
  /\ resolveCalls <= nDecoded

\* the case of C12 on the Nak branch, for the second decoded frame of a run
C12_Witness ==
  /\ Responded /\ p.MsgType = Request
  /\ response # NoResponse /\ response.DhcpType = NAK
  /\ resolved = <<p>> /\ resolveCalls = 2 /\ nDecoded = 2

\* C13: frames are handled one at a time: a frame is read only when the
\* handling of the one before has ended (no frame in flight), and responses
\* are transmitted in the arrival order of their requests, one per frame.
C13_OneFrameAtATime ==
  [][/\ (nRead' # nRead)
          => (pc = "recv" /\ frame = NoFrame /\ p = NoPacket
              /\ response = NoResponse)
     /\ (sentOrder' # sentOrder)
          => (/\ sentOrder' = Append(sentOrder, nRead)
              /\ \A i \in 1..Len(sentOrder) : sentOrder[i] < nRead)]_vars

\* two frames answered in a run, in their order of arrival
C13_Witness ==
  nRead = 2 /\ sentOrder = <<1, 2>> /\ pc = "done"

\* C14: when Sendto fails the process ends: nothing is decoded, resolved or
\* answered afterwards, and the send is not retried.
C14_SendFailureIsFatal ==
  /\ [][("sendto_failed" \in events) => UNCHANGED vars]_vars
  /\ [](("sendto_failed" \in events) => (pc = "exited" /\ sent = NotSent))

\* a failed send while the capture source still has frames to deliver
C14_Witness ==
  "sendto_failed" \in events /\ pc = "exited" /\ nRead < MaxFrames

\* C15: every value stored in the request's VLAN sequence is the tag's 12-bit
\* VLAN id, the tag control field modulo 4096, also for tags with priority
\* bits.  (The code stores the 16-bit tag control field.)
C15_VlanIdOnly ==
  p # NoPacket
    => \A i \in 1..Len(frame.tags) :
         /\ i \in DOMAIN p.VLan
         /\ p.VLan[i] = (frame.tags[i][1] * 256 + frame.tags[i][2]) % 4096

\* C16: a frame with n stacked tags, n in 0..2, decodes to a VLAN sequence of
\* exactly n entries, entry i being for the i-th tag of the frame, outermost
\* first.
C16_TagsInOrder ==
  (p # NoPacket /\ Len(frame.tags) <= 2)
    => (/\ Len(p.VLan) = Len(frame.tags)
        /\ \A i \in 1..Len(frame.tags) :
             p.VLan[i] % 4096 = VlanIdOfTag(frame.tags[i]))

\* the case of C16 with two tags that carry different ids
C16_Witness ==
  /\ p # NoPacket /\ Len(frame.tags) = 2
  /\ VlanIdOfTag(frame.tags[1]) # VlanIdOfTag(frame.tags[2])
  /\ Len(p.VLan) = 2

\* C17: a frame with more than 2 stacked tags is rejected with a decode
\* error (no request, no resolver call, no response), and no request has a
\* VLAN sequence longer than 2.  (The code decodes any number of tags.)
C17_TooManyTagsRejected ==
  /\ (Parsed /\ frame.netLayer = "IPv4" /\ Len(frame.tags) > 2)
       => (/\ p = NoPacket /\ "parse_error" \in events
           /\ resolved = <<>> /\ response = NoResponse /\ sent = NotSent)
  /\ p # NoPacket => Len(p.VLan) <= 2

\* C18: the requested IP is set if and only if option 50 is present with
\* exactly 4 bytes (and then holds those bytes); an option 50 of another
\* length is no decode error, and a Request with one is still decided and
\* can be acknowledged only through its client-IP field.
C18_RequestedIpOnlyFromFourBytes ==
  /\ p # NoPacket
       => (/\ (p.RequestedIp # NilIP)
                <=> (frame.opt50.ok /\ Len(frame.opt50.val) = 4)
           /\ (p.RequestedIp # NilIP)
                => IPEqual(p.RequestedIp, frame.opt50.val))
  /\ (Parsed /\ frame.netLayer = "IPv4"
      /\ frame.opt50.ok /\ Len(frame.opt50.val) # 4
      /\ ~(frame.opt53.ok /\ Len(frame.opt53.val) # 1))
       => (p # NoPacket /\ "parse_error" \notin events)
  /\ (IsRequestWithLease /\ frame.opt50.ok /\ Len(frame.opt50.val) # 4)
       => (/\ response # NoResponse
           /\ response.DhcpType = ACK => IPEqual(lease.Ip, frame.ciaddr))

\* the case of C18: a Request with a 3-byte option 50, acknowledged
C18_Witness ==
  /\ IsRequestWithLease /\ frame.opt50.ok /\ Len(frame.opt50.val) = 3
  /\ response # NoResponse /\ response.DhcpType = ACK

\* C19: a frame without option 53 is no decode error: it decodes to a request
\* of message type 0, which is handled as an unimplemented type: no resolver
\* call, nothing transmitted.
C19_MissingTypeIgnored ==
  /\ (Parsed /\ frame.netLayer = "IPv4" /\ ~frame.opt53.ok)
       => (p # NoPacket /\ p.MsgType = 0 /\ "parse_error" \notin events)
  /\ (Responded /\ ~frame.opt53.ok)
       => (/\ response = NoResponse /\ resolved = <<>> /\ sent = NotSent
           /\ "not_implemented" \in events /\ pc = "done")

\* the case of C19: a frame without option 53, handled to the end
C19_Witness ==
  /\ Responded /\ ~frame.opt53.ok
  /\ "not_responding" \in events /\ pc = "done"

\* C20: in every decision the offered IP is the IP of the lease the resolver
\* returned for this frame, the source IP is the server's address and the
\* source MAC the server's MAC; the configuration and the stored link-layer
\* address template never change once set.
C20_DecisionFromLeaseAndConfig ==
  /\ response # NoResponse
       => (/\ lease # NoLease
           /\ response.OfferedIp = lease.Ip
           /\ response.SrcIp = MyAddress
           /\ response.SrcMac = ServerMac)
  /\ config = NewConfig
  /\ pc # "new" => addr = RunSockaddr

\* the case of C20: an Ack sent for the second frame of a run, with a
\* link-layer address that differs from the stored template
C20_Witness ==
  /\ sent # NotSent /\ response.DhcpType = ACK /\ nRead = 2
  /\ sent.addr # addr /\ addr = RunSockaddr

====
